---- MODULE Spec2Model ----
(***************************************************************************)
(* Quaternion arithmetic (src/quaternion.py) and quaternion based 3D       *)
(* rotation (src/rotation.py) of py-quat-rotation.                         *)
(*                                                                         *)
(* The sources are Python 2 (src/quaternion.py:108 is indented with a tab  *)
(* under a four-space block, which Python 3 rejects), so `/` between two   *)
(* ints is floor division and every other `/` is true division.            *)
(*                                                                         *)
(* A Python number is the record [t, a, b, d, e]: t is its type ("int" or  *)
(* "float"; "str" stands for any non-numeric value) and its value is       *)
(*        (a + b*sqrt(2)) / d * 10^e                                       *)
(* kept in the normal form of Norm below, so that equal values are equal   *)
(* records.  Arithmetic on these values is exact: the rounding of IEEE-754 *)
(* doubles is not modelled.                                                *)
(***************************************************************************)
EXTENDS Integers, Sequences, FiniteSets, TLC

VARIABLES p, q, res, rot, exc, ret, chain, heap

vars == <<p, q, res, rot, exc, ret, chain, heap>>

(***************************************************************************)
(* Exact values (a + b*sqrt(2)) / d * 10^e                                 *)
(***************************************************************************)
Abs(x) == IF x < 0 THEN -x ELSE x

Min(x, y) == IF x < y THEN x ELSE y

RECURSIVE Gcd(_, _)
Gcd(x, y) == IF y = 0 THEN x ELSE Gcd(y, x % y)

RECURSIVE Pow10(_)
Pow10(n) == IF n = 0 THEN 1 ELSE 10 * Pow10(n - 1)

\* move the factors 2 of the denominator into the decimal exponent
RECURSIVE Strip2(_)
Strip2(v) ==
    IF v.d % 2 = 0
    THEN Strip2([a |-> 5 * v.a, b |-> 5 * v.b, d |-> v.d \div 2, e |-> v.e - 1])
    ELSE v

\* move the factors 5 of the denominator into the decimal exponent
RECURSIVE Strip5(_)
Strip5(v) ==
    IF v.d % 5 = 0
    THEN Strip5([a |-> 2 * v.a, b |-> 2 * v.b, d |-> v.d \div 5, e |-> v.e - 1])
    ELSE v

\* move the factors 10 of the numerator into the decimal exponent
RECURSIVE Lift10(_)
Lift10(v) ==
    IF v.a % 10 = 0 /\ v.b % 10 = 0
    THEN Lift10([a |-> v.a \div 10, b |-> v.b \div 10, d |-> v.d, e |-> v.e + 1])
    ELSE v

VZero == [a |-> 0, b |-> 0, d |-> 1, e |-> 0]

VOne == [a |-> 1, b |-> 0, d |-> 1, e |-> 0]

\* the normal form of (a + b*sqrt(2)) / d * 10^e, d > 0
Norm(a, b, d, e) ==
    IF a = 0 /\ b = 0
    THEN VZero
    ELSE LET g == Gcd(Gcd(Abs(a), Abs(b)), d)
         IN  Lift10(Strip5(Strip2(
                 [a |-> a \div g, b |-> b \div g, d |-> d \div g, e |-> e])))

VIsZero(x) == x.a = 0 /\ x.b = 0

VNeg(x) == [a |-> -x.a, b |-> -x.b, d |-> x.d, e |-> x.e]

VAdd(x, y) ==
    IF VIsZero(x) THEN y
    ELSE IF VIsZero(y) THEN x
    ELSE LET m  == Min(x.e, y.e)
             sx == Pow10(x.e - m)
             sy == Pow10(y.e - m)
         IN  Norm(sx * x.a * y.d + sy * y.a * x.d,
                  sx * x.b * y.d + sy * y.b * x.d,
                  x.d * y.d, m)

VSub(x, y) == VAdd(x, VNeg(y))

VMul(x, y) ==
    Norm(x.a * y.a + 2 * x.b * y.b, x.a * y.b + x.b * y.a, x.d * y.d, x.e + y.e)

\* 1/y for y # 0: d*(a - b*sqrt(2)) / (a^2 - 2*b^2) * 10^(-e)
VInv(y) ==
    LET n == y.a * y.a - 2 * y.b * y.b
        s == IF n < 0 THEN -1 ELSE 1
    IN  Norm(s * y.d * y.a, -s * y.d * y.b, s * n, -y.e)

VDiv(x, y) == VMul(x, VInv(y))

\* a + b*sqrt(2) > 0
Pos(a, b) ==
    \/ a > 0 /\ b >= 0
    \/ a >= 0 /\ b > 0
    \/ a > 0 /\ b < 0 /\ a * a > 2 * b * b
    \/ a < 0 /\ b > 0 /\ 2 * b * b > a * a

VSgn(x) == IF VIsZero(x) THEN 0 ELSE IF Pos(x.a, x.b) THEN 1 ELSE -1

\* (a + b*sqrt(2)) * 10^m < d, for a + b*sqrt(2) > 0 and d > 0
RECURSIVE LtScaled(_, _, _, _)
LtScaled(a, b, d, m) ==
    IF m = 0 THEN Pos(d - a, -b)
    ELSE IF m > 0
         THEN Pos(d - a, -b) /\ LtScaled(10 * a, 10 * b, d, m - 1)
         ELSE Pos(d - a, -b) \/ LtScaled(a, b, 10 * d, m + 1)

\* z < 1, for z > 0
VLessOne(z) == LtScaled(z.a, z.b, z.d, z.e)

VLess(x, y) ==
    CASE VSgn(y) = 0 -> VSgn(x) < 0
      [] VSgn(y) > 0 -> VSgn(x) <= 0 \/ VLessOne(VDiv(x, y))
      [] OTHER       -> VSgn(x) < 0 /\ VDiv(x, y) # VOne /\ ~VLessOne(VDiv(x, y))

\* the largest numerator, coefficient and denominator tried for a square root
MaxRoot == 5

\* the exact non-negative square root of x >= 0; it is defined for the
\* values whose root is (m + n*sqrt(2))/s * 10^k with m, n, s within MaxRoot
VSqrt(x) ==
    IF VIsZero(x) THEN VZero
    ELSE LET odd == x.e % 2 = 1
             a   == IF odd THEN 10 * x.a ELSE x.a
             b   == IF odd THEN 10 * x.b ELSE x.b
             h   == (IF odd THEN x.e - 1 ELSE x.e) \div 2
             r   == CHOOSE c \in [m : 0 .. MaxRoot, n : 0 .. MaxRoot, s : 1 .. MaxRoot] :
                        /\ (c.m * c.m + 2 * c.n * c.n) * x.d = a * c.s * c.s
                        /\ 2 * c.m * c.n * x.d = b * c.s * c.s
         IN  Norm(r.m, r.n, r.s, h)

(***************************************************************************)
(* Python values: numbers, non-numbers, quaternions, points, exceptions    *)
(***************************************************************************)
PyFloat(v) == [a |-> v.a, b |-> v.b, d |-> v.d, e |-> v.e, t |-> "float"]

PyInt(n) == [PyFloat(Norm(n, 0, 1, 0)) EXCEPT !.t = "int"]

\* the float n/d
Frac(n, d) == PyFloat(Norm(n, 0, d, 0))

\* the float n * 10^e
Dec(n, e) == PyFloat(Norm(n, 0, 1, e))

\* a value that is neither an int nor a float (a text value)
NaS == [PyFloat(VZero) EXCEPT !.t = "str"]

Val(x) == [a |-> x.a, b |-> x.b, d |-> x.d, e |-> x.e]

\* the value of an int
IntVal(x) == x.a * Pow10(x.e)

\* Python's ==, which compares an int and a float by value
NumEq(x, y) == Val(x) = Val(y)

\* the type of the result of a binary arithmetic operator
Join(x, y) == IF x.t = "int" /\ y.t = "int" THEN "int" ELSE "float"

NAdd(x, y) == [PyFloat(VAdd(Val(x), Val(y))) EXCEPT !.t = Join(x, y)]

NSub(x, y) == [PyFloat(VSub(Val(x), Val(y))) EXCEPT !.t = Join(x, y)]

NMul(x, y) == [PyFloat(VMul(Val(x), Val(y))) EXCEPT !.t = Join(x, y)]

NNeg(x) == [PyFloat(VNeg(Val(x))) EXCEPT !.t = x.t]

\* Python 2's `/`: floor division of two ints, true division otherwise
NDiv(x, y) ==
    IF x.t = "int" /\ y.t = "int"
    THEN PyInt(IntVal(x) \div IntVal(y))
    ELSE PyFloat(VDiv(Val(x), Val(y)))

NLess(x, y) == VLess(Val(x), Val(y))

\* math.sqrt
Sqrt(x) == PyFloat(VSqrt(Val(x)))

isFloat(n) == n.t = "float" \/ n.t = "int"

Raise(name) == [t |-> "exc", name |-> name]

IsExc(x) == x.t = "exc"

isQuaternion(x) == x.t = "quat"

\* Quaternion.eps = 1e-12
eps == Dec(1, -12)

(***************************************************************************)
(* Quaternion (src/quaternion.py).  An operation returns its value, or the *)
(* exception it raises as the record Raise(name).                          *)
(***************************************************************************)
Quat(o, i, j, k) == [t |-> "quat", o |-> o, i |-> i, j |-> j, k |-> k]

\* Quaternion(o, i, j, k): __init__ and setQ
Quaternion(o, i, j, k) ==
    IF isQuaternion(o)
    THEN Quat(o.o, o.i, o.j, o.k)
    ELSE IF ~(isFloat(o) /\ isFloat(i) /\ isFloat(j) /\ isFloat(k))
         THEN Raise("QuaternionException")
         ELSE Quat(o, i, j, k)

\* self + x
Add(self, x) ==
    IF isQuaternion(x)
    THEN Quaternion(NAdd(self.o, x.o), NAdd(self.i, x.i),
                    NAdd(self.j, x.j), NAdd(self.k, x.k))
    ELSE IF isFloat(x)
         THEN Quaternion(NAdd(self.o, x), self.i, self.j, self.k)
         ELSE Raise("QuaternionException")

\* Sub taking a scalar from every component
Sub_ScalarFromAll(self, x) ==
    IF isQuaternion(x)
    THEN Quaternion(NSub(self.o, x.o), NSub(self.i, x.i),
                    NSub(self.j, x.j), NSub(self.k, x.k))
    ELSE IF isFloat(x)
         THEN Quaternion(NSub(self.o, x), NSub(self.i, x), NSub(self.j, x), NSub(self.k, x))
         ELSE Raise("QuaternionException")

\* self - x
Sub(self, x) ==
    IF isQuaternion(x)
    THEN Quaternion(NSub(self.o, x.o), NSub(self.i, x.i),
                    NSub(self.j, x.j), NSub(self.k, x.k))
    ELSE IF isFloat(x)
         THEN Quaternion(NSub(self.o, x), self.i, self.j, self.k)
         ELSE Raise("QuaternionException")

\* the four components of the product of two quaternions, as __mul__ and
\* __imul__ compute them
HamiltonO(s, x) ==
    NSub(NSub(NSub(NMul(s.o, x.o), NMul(s.i, x.i)), NMul(s.j, x.j)), NMul(s.k, x.k))

\* HamiltonI with the sign of the j*k term slipped
HamiltonI_MinusJK(s, x) ==
    NSub(NSub(NAdd(NMul(s.o, x.i), NMul(s.i, x.o)), NMul(s.j, x.k)), NMul(s.k, x.j))

HamiltonI(s, x) ==
    NSub(NAdd(NAdd(NMul(s.o, x.i), NMul(s.i, x.o)), NMul(s.j, x.k)), NMul(s.k, x.j))

\* HamiltonJ with the sign of the i*k term slipped
HamiltonJ_PlusIK(s, x) ==
    NAdd(NAdd(NAdd(NMul(s.o, x.j), NMul(s.i, x.k)), NMul(s.j, x.o)), NMul(s.k, x.i))

HamiltonJ(s, x) ==
    NAdd(NAdd(NSub(NMul(s.o, x.j), NMul(s.i, x.k)), NMul(s.j, x.o)), NMul(s.k, x.i))

\* HamiltonK with the sign of the j*i term slipped, which makes i*j = j*i
HamiltonK_PlusJI(s, x) ==
    NAdd(NAdd(NAdd(NMul(s.o, x.k), NMul(s.i, x.j)), NMul(s.j, x.i)), NMul(s.k, x.o))

HamiltonK(s, x) ==
    NAdd(NSub(NAdd(NMul(s.o, x.k), NMul(s.i, x.j)), NMul(s.j, x.i)), NMul(s.k, x.o))

\* self * x
Mul(self, x) ==
    IF isQuaternion(x)
    THEN Quaternion(HamiltonO(self, x), HamiltonI(self, x),
                    HamiltonJ(self, x), HamiltonK(self, x))
    ELSE IF isFloat(x)
         THEN Quaternion(NMul(self.o, x), NMul(self.i, x),
                         NMul(self.j, x), NMul(self.k, x))
         ELSE Raise("QuaternionException")

\* self += x: the receiver after the call, or the exception raised
IAdd(self, x) ==
    IF isQuaternion(x)
    THEN Quat(NAdd(self.o, x.o), NAdd(self.i, x.i),
              NAdd(self.j, x.j), NAdd(self.k, x.k))
    ELSE IF isFloat(x)
         THEN Quat(NAdd(self.o, x), self.i, self.j, self.k)
         ELSE Raise("QuaternionException")

\* self *= x: the receiver after the call, or the exception raised
IMul(self, x) ==
    IF isQuaternion(x)
    THEN Quat(HamiltonO(self, x), HamiltonI(self, x),
              HamiltonJ(self, x), HamiltonK(self, x))
    ELSE IF isFloat(x)
         THEN Quat(NMul(self.o, x), NMul(self.i, x), NMul(self.j, x), NMul(self.k, x))
         ELSE Raise("QuaternionException")

\* -self
Neg(self) == Quaternion(NNeg(self.o), NNeg(self.i), NNeg(self.j), NNeg(self.k))

conj(self) == Quaternion(self.o, NNeg(self.i), NNeg(self.j), NNeg(self.k))

sqsum(self) ==
    NAdd(NAdd(NAdd(NMul(self.o, self.o), NMul(self.i, self.i)),
              NMul(self.j, self.j)), NMul(self.k, self.k))

norm(self) == Sqrt(sqsum(self))

\* reciprocal, given nsq = self.__sqsum()
reciprocalBy(self, nsq) ==
    IF NLess(nsq, eps)
    THEN Raise("QuaternionException")
    ELSE Quaternion(NDiv(self.o, nsq), NDiv(NNeg(self.i), nsq),
                    NDiv(NNeg(self.j), nsq), NDiv(NNeg(self.k), nsq))

reciprocal(self) == reciprocalBy(self, sqsum(self))

\* self / n, componentwise
Scaled(self, n) ==
    Quaternion(NDiv(self.o, n), NDiv(self.i, n), NDiv(self.j, n), NDiv(self.k, n))

\* unit testing the squared norm, as reciprocal does
unit_TestsSquaredNorm(self, n) ==
    IF NLess(NMul(n, n), eps) THEN Raise("QuaternionException") ELSE Scaled(self, n)

\* unit(), given n = self.norm()
unitBy(self, n) ==
    IF NLess(n, eps) THEN Raise("QuaternionException") ELSE Scaled(self, n)

unit(self) == unitBy(self, norm(self))

(***************************************************************************)
(* Operands of the quaternion operations                                   *)
(***************************************************************************)
\* the largest absolute value of an integer component of the operand p
MaxC == 1

Ints == {PyInt(n) : n \in -MaxC .. MaxC}

IQ(o, i, j, k) == Quat(PyInt(o), PyInt(i), PyInt(j), PyInt(k))

FQ(o, i, j, k) == Quat(o, i, j, k)

F0 == Dec(0, 0)

\* p and q of src/quaternion_test.py (its p has a float i component)
TestP == Quat(PyInt(-3), Dec(1, 0), PyInt(2), PyInt(-1))

TestQ == IQ(1, -2, 3, -4)

\* o, i, j, k of src/quaternion_test.py
BasisO == Quat(Dec(1, 0), F0, F0, F0)

BasisI == Quat(F0, Dec(1, 0), F0, F0)

BasisJ == Quat(F0, F0, Dec(1, 0), F0)

BasisK == Quat(F0, F0, F0, Dec(1, 0))

Basis == {BasisO, BasisI, BasisJ, BasisK}

FloatQuats ==
    { Quat(F0, F0, F0, F0),
      Quat(Dec(1, 0), Dec(1, 0), F0, F0),
      Quat(F0, Dec(3, 0), Dec(4, 0), F0),
      Quat(Dec(1, 0), Dec(2, 0), Dec(2, 0), Dec(4, 0)),
      Quat(Dec(5, -1), Dec(-5, -1), Dec(5, -1), Dec(-5, -1)) }

\* float quaternions whose norm is at, just above and just below eps and its
\* square root; they are operands of the unary operations only, since the
\* exact sum of one of them and a quaternion of norm 1 has too many digits
SmallQuats ==
    { Quat(Dec(1, -6), F0, F0, F0),
      Quat(F0, Dec(-1, -7), F0, F0),
      Quat(Dec(3, -7), F0, Dec(4, -7), F0),
      Quat(F0, F0, Dec(1, -12), F0),
      Quat(F0, F0, F0, Dec(2, -12)),
      Quat(F0, Dec(-1, -13), F0, F0),
      Quat(Dec(3, -13), F0, F0, Dec(4, -13)) }

IntQuats == {Quat(o, i, j, k) : o \in Ints, i \in Ints, j \in Ints, k \in Ints}

POperands ==
    IntQuats \cup FloatQuats \cup SmallQuats \cup Basis \cup {TestP, TestQ, IQ(-3, 1, 2, -1)}

QOperands == Basis \cup {TestP, TestQ, IQ(-3, 1, 2, -1), IQ(0, -1, 1, 0)}

Scalars == {PyInt(2), PyInt(-7), PyInt(0), Dec(5, -1), Dec(-25, -1)}

None == [t |-> "none"]

\* math.sqrt is modelled for the values whose root VSqrt can represent
HasRoot(x) ==
    \/ VIsZero(Val(x))
    \/ LET odd == x.e % 2 = 1
           a   == IF odd THEN 10 * x.a ELSE x.a
           b   == IF odd THEN 10 * x.b ELSE x.b
       IN  \E c \in [m : 0 .. MaxRoot, n : 0 .. MaxRoot, s : 1 .. MaxRoot] :
               /\ (c.m * c.m + 2 * c.n * c.n) * x.d = a * c.s * c.s
               /\ 2 * c.m * c.n * x.d = b * c.s * c.s

(***************************************************************************)
(* The quaternion driver: operands p and q as in src/quaternion_test.py,   *)
(* and the last operation applied to them with its result in res.          *)
(***************************************************************************)
Result(op, x, val, alt) == [op |-> op, x |-> x, val |-> val, alt |-> alt]

NoRot == [live |-> FALSE]

InitQuat ==
    /\ p \in POperands
    /\ q \in QOperands
    /\ res = Result("none", None, None, None)
    /\ rot = NoRot
    /\ exc = "none"
    /\ ret = Result("none", None, None, None)
    /\ chain = << >>
    /\ heap = << >>

\* the driver applies one operation to a fresh pair of operands
Fresh == res.op = "none"

\* p * q and q * p
DoMul ==
    /\ Fresh
    /\ p \notin SmallQuats
    /\ res' = Result("mul", q, Mul(p, q), Mul(q, p))
    /\ UNCHANGED <<p, q, rot, exc, ret, chain, heap>>

\* p * s for a scalar s
DoMulScalar(s) ==
    /\ Fresh
    /\ p \notin SmallQuats
    /\ res' = Result("muls", s, Mul(p, s), None)
    /\ UNCHANGED <<p, q, rot, exc, ret, chain, heap>>

\* (p * q) * r and p * (q * r)
DoMulMul(r) ==
    /\ Fresh
    /\ p \notin SmallQuats
    /\ res' = Result("mulmul", r, Mul(Mul(p, q), r), Mul(p, Mul(q, r)))
    /\ UNCHANGED <<p, q, rot, exc, ret, chain, heap>>

\* p + x for a quaternion or a scalar x
DoAdd(x) ==
    /\ Fresh
    /\ p \notin SmallQuats
    /\ res' = Result("add", x, Add(p, x), None)
    /\ UNCHANGED <<p, q, rot, exc, ret, chain, heap>>

\* p - x for a quaternion or a scalar x
DoSub(x) ==
    /\ Fresh
    /\ p \notin SmallQuats
    /\ res' = Result("sub", x, Sub(p, x), None)
    /\ UNCHANGED <<p, q, rot, exc, ret, chain, heap>>

DoReciprocal ==
    /\ Fresh
    /\ res' = Result("reciprocal", None, reciprocal(p), None)
    /\ UNCHANGED <<p, q, rot, exc, ret, chain, heap>>

DoUnit ==
    /\ Fresh
    /\ HasRoot(sqsum(p))
    /\ res' = Result("unit", None, unit(p), None)
    /\ UNCHANGED <<p, q, rot, exc, ret, chain, heap>>

DoNorm ==
    /\ Fresh
    /\ HasRoot(sqsum(p))
    /\ res' = Result("norm", None, norm(p), None)
    /\ UNCHANGED <<p, q, rot, exc, ret, chain, heap>>

DoConj ==
    /\ Fresh
    /\ res' = Result("conj", None, conj(p), None)
    /\ UNCHANGED <<p, q, rot, exc, ret, chain, heap>>

DoNeg ==
    /\ Fresh
    /\ res' = Result("neg", None, Neg(p), None)
    /\ UNCHANGED <<p, q, rot, exc, ret, chain, heap>>

NextQuat ==
    \/ DoMul
    \/ \E s \in Scalars : DoMulScalar(s)
    \/ \E r \in QOperands : DoMulMul(r)
    \/ \E x \in {q} \cup Scalars : DoAdd(x)
    \/ \E x \in {q} \cup Scalars : DoSub(x)
    \/ DoReciprocal
    \/ DoUnit
    \/ DoNorm
    \/ DoConj
    \/ DoNeg

SpecQuat == InitQuat /\ [][NextQuat]_vars

(***************************************************************************)
(* Point3D and Rotation (src/rotation.py).                                 *)
(*                                                                         *)
(* An angle is the record [t, h]: the float (or int) h * pi/2, so that     *)
(* sin(0.5*angle) and cos(0.5*angle) are 0, 1, -1 or +-sqrt(2)/2, which    *)
(* the exact values represent.                                             *)
(***************************************************************************)
Point(x, y, z) == [t |-> "point", x |-> x, y |-> y, z |-> z]

isPoint3D(x) == x.t = "point"

\* Point3D(x, y, z): __init__ and setPoint
Point3D(x, y, z) ==
    IF isFloat(x) /\ isFloat(y) /\ isFloat(z)
    THEN Point(x, y, z)
    ELSE IF isPoint3D(x)
         THEN Point(x.x, x.y, x.z)
         ELSE Raise("PointException")

\* Point3D.sqSum
sqSum(self) ==
    NAdd(NAdd(NMul(self.x, self.x), NMul(self.y, self.y)), NMul(self.z, self.z))

\* the float h * pi/2
Angle(h) == [t |-> "float", h |-> h]

\* math.sin(k * pi/4) and math.cos(k * pi/4)
SinQuarterPi(k) ==
    CASE k % 8 \in {0, 4} -> PyFloat(VZero)
      [] k % 8 \in {1, 3} -> PyFloat(Norm(0, 1, 2, 0))
      [] k % 8 = 2        -> PyFloat(VOne)
      [] k % 8 \in {5, 7} -> PyFloat(Norm(0, -1, 2, 0))
      [] OTHER            -> PyFloat(VNeg(VOne))

CosQuarterPi(k) == SinQuarterPi(k + 2)

\* math.sin(0.5 * theta) and math.cos(0.5 * theta)
sinHalf(theta) == SinQuarterPi(theta.h)

cosHalf(theta) == CosQuarterPi(theta.h)

\* a Rotation object with its private members __r, __theta and __q
Rot(r, theta, rq) == [live |-> TRUE, r |-> r, theta |-> theta, q |-> rq]

\* the outcome of a call: the object after it and the exception it raised
Outcome(self, e) == [rot |-> self, exc |-> e]

\* __update letting the QuaternionException of unit() pass to the caller
updateBy_Escapes(self, u) ==
    IF IsExc(u)
    THEN Outcome(self, u.name)
    ELSE Outcome([self EXCEPT !.r = Point(u.i, u.j, u.k),
                              !.q = IAdd(IMul(u, sinHalf(self.theta)),
                                         cosHalf(self.theta))],
                 "none")

\* Rotation.__update, given u, what Quaternion(0.0, r.x, r.y, r.z).unit()
\* gave: the quaternion, or the exception, which leaves before anything is
\* assigned.  The components of __r are floats or ints (Point3D checked
\* them) and math.sin and math.cos return floats, so only unit() can raise.
updateBy(self, u) ==
    IF IsExc(u)
    THEN Outcome(self, "RotationException")
    ELSE Outcome([self EXCEPT !.r = Point(u.i, u.j, u.k),
                              !.q = IAdd(IMul(u, sinHalf(self.theta)),
                                         cosHalf(self.theta))],
                 "none")

\* Rotation.__update, on an object whose __r and __theta are set
update(self) == updateBy(self, unit(Quaternion(F0, self.r.x, self.r.y, self.r.z)))

\* setAxis, given pt = Point3D(rx, ry, rz) or the PointException it raised
setAxisBy(self, pt) ==
    IF IsExc(pt)
    THEN Outcome(self, "RotationException")
    ELSE update([self EXCEPT !.r = pt])

\* Rotation.setAxis
setAxis(self, rx, ry, rz) == setAxisBy(self, Point3D(rx, ry, rz))

\* setAngle that stores the angle and leaves the quaternion as it was
setAngle_NoUpdate(self, angle) ==
    IF ~isFloat(angle)
    THEN Outcome(self, "RotationException")
    ELSE Outcome([self EXCEPT !.theta = angle], "none")

\* Rotation.setAngle
setAngle(self, angle) ==
    IF ~isFloat(angle)
    THEN Outcome(self, "RotationException")
    ELSE update([self EXCEPT !.theta = angle])

\* what the constructor leaves, given the outcome of its call of setAxis
Constructed(made) == IF made.exc = "none" THEN made ELSE Outcome(NoRot, made.exc)

\* Rotation(rx, ry, rz, angle): the object under construction has no
\* members yet; a constructor that raises gives the caller no object
NewRotation(rx, ry, rz, angle) ==
    IF ~isFloat(angle)
    THEN Outcome(NoRot, "RotationException")
    ELSE Constructed(setAxis(Rot(None, angle, None), rx, ry, rz))

\* Rotation.getAxis
getAxis(self, factor) ==
    Point3D(NMul(self.r.x, factor), NMul(self.r.y, factor), NMul(self.r.z, factor))

getAngle(self) == self.theta

getRotationQuaternion(self) == self.q

\* Point3D(pqr.getI(), pqr.getJ(), pqr.getK())
vectorOf(pqr) == Point3D(pqr.i, pqr.j, pqr.k)

\* rotate multiplying in the order conj(q) * p * q
rotate_Reversed(self, pt) ==
    IF ~isPoint3D(pt)
    THEN Raise("RotationException")
    ELSE vectorOf(Mul(Mul(conj(self.q), Quaternion(PyInt(0), pt.x, pt.y, pt.z)),
                      self.q))

\* Rotation.rotate: the point returned, or the exception raised
rotate(self, pt) ==
    IF ~isPoint3D(pt)
    THEN Raise("RotationException")
    ELSE vectorOf(Mul(Mul(self.q, Quaternion(PyInt(0), pt.x, pt.y, pt.z)),
                      conj(self.q)))

(***************************************************************************)
(* The rotation driver: one Rotation object rot as in                      *)
(* src/rotation_test.py, the exception exc raised by the last call ("none" *)
(* when it returned) and in ret the call, its arguments, the value it      *)
(* returned and the object before it.                                      *)
(***************************************************************************)
\* the largest number of quarter turns of an angle argument
MaxTurn == 2

Angles == {Angle(h) : h \in -MaxTurn .. MaxTurn}

AngleArgs == Angles \cup {NaS}

\* axis arguments: three scalars, or a Point3D first
AxisArgs ==
    { <<F0, F0, PyInt(1)>>,
      <<PyInt(0), PyInt(2), PyInt(0)>>,
      <<Point(PyInt(3), PyInt(0), PyInt(0)), F0, F0>>,
      <<PyInt(1), PyInt(1), PyInt(0)>>,
      <<PyInt(0), PyInt(-3), PyInt(4)>>,
      <<PyInt(0), PyInt(0), PyInt(0)>>,
      <<Point(PyInt(0), PyInt(0), PyInt(0)), F0, F0>>,
      <<Dec(1, -13), F0, F0>>,
      <<NaS, PyInt(1), PyInt(0)>> }

Points ==
    { Point(PyInt(1), PyInt(1), PyInt(1)),
      Point(PyInt(7), PyInt(2), PyInt(-5)),
      Point(Dec(5, -1), F0, PyInt(-2)) }

Factors == {Dec(1, 0), PyInt(2), Dec(-5, -1)}

InitRot ==
    /\ p = BasisO
    /\ q = BasisO
    /\ res = Result("none", None, None, None)
    /\ rot = NoRot
    /\ exc = "none"
    /\ ret = Result("none", None, None, None)
    /\ chain = << >>
    /\ heap = << >>

\* rot = Rotation(rx, ry, rz, angle); rot keeps its value when this raises
Construct(rx, ry, rz, angle) ==
    \E out \in {NewRotation(rx, ry, rz, angle)} :
        /\ rot' = IF out.exc = "none" THEN out.rot ELSE rot
        /\ exc' = out.exc
        /\ ret' = Result("Rotation", <<rx, ry, rz, angle>>, None, rot)
        /\ UNCHANGED <<p, q, res, chain, heap>>

\* rot.setAxis(rx, ry, rz)
SetAxis(rx, ry, rz) ==
    /\ rot.live
    /\ \E out \in {setAxis(rot, rx, ry, rz)} :
        /\ rot' = out.rot
        /\ exc' = out.exc
        /\ ret' = Result("setAxis", <<rx, ry, rz>>, None, rot)
        /\ UNCHANGED <<p, q, res, chain, heap>>

\* rot.setAngle(angle)
SetAngle(angle) ==
    /\ rot.live
    /\ \E out \in {setAngle(rot, angle)} :
        /\ rot' = out.rot
        /\ exc' = out.exc
        /\ ret' = Result("setAngle", angle, None, rot)
        /\ UNCHANGED <<p, q, res, chain, heap>>

\* rot.getAxis(factor)
GetAxis(factor) ==
    /\ rot.live
    /\ exc' = "none"
    /\ ret' = Result("getAxis", factor, getAxis(rot, factor), rot)
    /\ UNCHANGED <<p, q, res, rot, chain, heap>>

\* rot.getAngle()
GetAngle ==
    /\ rot.live
    /\ exc' = "none"
    /\ ret' = Result("getAngle", None, getAngle(rot), rot)
    /\ UNCHANGED <<p, q, res, rot, chain, heap>>

\* rot.getRotationQuaternion()
GetRotationQuaternion ==
    /\ rot.live
    /\ exc' = "none"
    /\ ret' = Result("getRotationQuaternion", None, getRotationQuaternion(rot), rot)
    /\ UNCHANGED <<p, q, res, rot, chain, heap>>

\* rot.rotate(pt), without the bookkeeping of chain
RotateCall(pt) ==
    /\ rot.live
    /\ \E out \in {rotate(rot, pt)} :
        /\ exc' = IF IsExc(out) THEN out.name ELSE "none"
        /\ ret' = Result("rotate", pt, IF IsExc(out) THEN None ELSE out, rot)
        /\ UNCHANGED <<p, q, res, rot, heap>>

\* rot.rotate(pt)
Rotate(pt) == RotateCall(pt) /\ UNCHANGED chain

NextRot ==
    \/ ~rot.live /\ \E a \in AxisArgs, t \in AngleArgs : Construct(a[1], a[2], a[3], t)
    \/ \E a \in AxisArgs : SetAxis(a[1], a[2], a[3])
    \/ \E t \in AngleArgs : SetAngle(t)
    \/ \E f \in Factors : GetAxis(f)
    \/ GetAngle
    \/ GetRotationQuaternion
    \/ \E pt \in Points \cup {NaS} : Rotate(pt)

SpecRot == InitRot /\ [][NextRot]_vars

(***************************************************************************)
(* The round trip: a point is rotated, the angle or the whole rotation is  *)
(* set anew, and the rotated point is rotated again.  chain records the    *)
(* rotations applied: the point, its image, and the axis and angle used.   *)
(***************************************************************************)
Link(pt, img, self) ==
    [arg |-> pt, val |-> img, axis |-> getAxis(self, Dec(1, 0)),
     theta |-> getAngle(self), q |-> getRotationQuaternion(self)]

\* rot.rotate(pt) of a point, recorded in chain
RotateChained(pt) ==
    /\ RotateCall(pt)
    /\ chain' = Append(chain, Link(pt, ret'.val, rot))

NextTrip ==
    \/ ~rot.live /\ \E a \in AxisArgs, t \in AngleArgs : Construct(a[1], a[2], a[3], t)
    \/ chain = << >> /\ \E pt \in Points : RotateChained(pt)
    \/ Len(chain) = 1 /\ ret.op = "rotate" /\
           \E a \in AxisArgs, t \in AngleArgs : Construct(a[1], a[2], a[3], t)
    \/ Len(chain) = 1 /\ ret.op = "rotate" /\ \E a \in AxisArgs : SetAxis(a[1], a[2], a[3])
    \/ Len(chain) = 1 /\ ret.op = "rotate" /\ \E t \in AngleArgs : SetAngle(t)
    \/ Len(chain) = 1 /\ ret.op # "rotate" /\ RotateChained(chain[1].val)

SpecTrip == InitRot /\ [][NextTrip]_vars

(***************************************************************************)
(* Objects.  heap is the sequence of the objects made so far and a         *)
(* reference Ref(n) names the n-th of them; two equal references are the   *)
(* same object.  A method takes the heap, its receiver and its arguments   *)
(* (references, numbers or other values) and gives Ran(h, val, e): the     *)
(* heap after it, the value returned and the exception raised.  A method   *)
(* that assigns component after component is modelled assignment by        *)
(* assignment, each reading the heap the previous one left.                *)
(***************************************************************************)
Ref(n) == [t |-> "ref", id |-> n]

isRef(x) == x.t = "ref"

\* the value a method sees for an argument
At(h, x) == IF isRef(x) THEN h[x.id] ELSE x

Ran(h, val, e) == [heap |-> h, val |-> val, exc |-> e]

\* `return Quaternion(...)`, `return Point3D(...)`: a new object, unless
\* the constructor raised
Made(h, v) ==
    IF IsExc(v) THEN Ran(h, None, v.name) ELSE Ran(Append(h, v), Ref(Len(h) + 1), "none")

\* a copy constructor handing out its argument
copy_SameObject(h, x) == Ran(h, x, "none")

\* Quaternion(q): the copy constructor
copy(h, x) == Made(h, Quaternion(At(h, x), F0, F0, F0))

\* self + x, self - x, self * x, -self, self.conj(), self.reciprocal(),
\* self.unit(): each returns a new Quaternion
add(h, self, x) == Made(h, Add(h[self.id], At(h, x)))

sub(h, self, x) == Made(h, Sub(h[self.id], At(h, x)))

mul(h, self, x) == Made(h, Mul(h[self.id], At(h, x)))

negOf(h, self) == Made(h, Neg(h[self.id]))

conjOf(h, self) == Made(h, conj(h[self.id]))

reciprocalOf(h, self) == Made(h, reciprocal(h[self.id]))

unitOf(h, self) == Made(h, unit(h[self.id]))

\* self.norm() returns a float
normOf(h, self) == Ran(h, norm(h[self.id]), "none")

\* setScalar assigning before it checks its argument
setScalar_AssignsFirst(h, self, v) ==
    IF ~isFloat(v)
    THEN Ran([h EXCEPT ![self.id].o = v], None, "QuaternionException")
    ELSE Ran([h EXCEPT ![self.id].o = v], self, "none")

setScalar(h, self, v) ==
    IF ~isFloat(v)
    THEN Ran(h, None, "QuaternionException")
    ELSE Ran([h EXCEPT ![self.id].o = v], self, "none")

setI(h, self, v) ==
    IF ~isFloat(v)
    THEN Ran(h, None, "QuaternionException")
    ELSE Ran([h EXCEPT ![self.id].i = v], self, "none")

\* setJ assigning the component k
setJ_AssignsK(h, self, v) ==
    IF ~isFloat(v)
    THEN Ran(h, None, "QuaternionException")
    ELSE Ran([h EXCEPT ![self.id].k = v], self, "none")

setJ(h, self, v) ==
    IF ~isFloat(v)
    THEN Ran(h, None, "QuaternionException")
    ELSE Ran([h EXCEPT ![self.id].j = v], self, "none")

setK(h, self, v) ==
    IF ~isFloat(v)
    THEN Ran(h, None, "QuaternionException")
    ELSE Ran([h EXCEPT ![self.id].k = v], self, "none")

\* self.c += q.c for the component c, one of "o", "i", "j", "k"
AddC(h, self, x, c) == [h EXCEPT ![self.id][c] = NAdd(@, At(h, x)[c])]

\* self += x
iadd(h, self, x) ==
    IF isQuaternion(At(h, x))
    THEN Ran(AddC(AddC(AddC(AddC(h, self, x, "o"), self, x, "i"), self, x, "j"),
                  self, x, "k"),
             self, "none")
    ELSE IF isFloat(x)
         THEN Ran([h EXCEPT ![self.id].o = NAdd(@, x)], self, "none")
         ELSE Ran(h, None, "QuaternionException")

\* self.c -= q.c for the component c, one of "o", "i", "j", "k"
SubC(h, self, x, c) == [h EXCEPT ![self.id][c] = NSub(@, At(h, x)[c])]

\* -= taking a scalar from every component
isub_ScalarFromAll(h, self, x) ==
    IF isQuaternion(At(h, x))
    THEN Ran(SubC(SubC(SubC(SubC(h, self, x, "o"), self, x, "i"), self, x, "j"),
                  self, x, "k"),
             self, "none")
    ELSE IF isFloat(x)
         THEN Ran([h EXCEPT ![self.id] = Quat(NSub(@.o, x), NSub(@.i, x),
                                              NSub(@.j, x), NSub(@.k, x))],
                  self, "none")
         ELSE Ran(h, None, "QuaternionException")

\* self -= x
isub(h, self, x) ==
    IF isQuaternion(At(h, x))
    THEN Ran(SubC(SubC(SubC(SubC(h, self, x, "o"), self, x, "i"), self, x, "j"),
                  self, x, "k"),
             self, "none")
    ELSE IF isFloat(x)
         THEN Ran([h EXCEPT ![self.id].o = NSub(@, x)], self, "none")
         ELSE Ran(h, None, "QuaternionException")

\* (for imul_OneByOne) the four components assigned one after the other,
\* each product read from the receiver as the assignments before it left it
MulO(h, self, x) == [h EXCEPT ![self.id].o = HamiltonO(h[self.id], At(h, x))]

MulI(h, self, x) == [h EXCEPT ![self.id].i = HamiltonI(h[self.id], At(h, x))]

MulJ(h, self, x) == [h EXCEPT ![self.id].j = HamiltonJ(h[self.id], At(h, x))]

MulK(h, self, x) == [h EXCEPT ![self.id].k = HamiltonK(h[self.id], At(h, x))]

\* *= assigning the four components one after the other
imul_OneByOne(h, self, x) ==
    IF isQuaternion(At(h, x))
    THEN Ran(MulK(MulJ(MulI(MulO(h, self, x), self, x), self, x), self, x), self, "none")
    ELSE IF isFloat(x)
         THEN Ran([h EXCEPT ![self.id] = Quat(NMul(@.o, x), NMul(@.i, x),
                                              NMul(@.j, x), NMul(@.k, x))],
                  self, "none")
         ELSE Ran(h, None, "QuaternionException")

\* self *= x: with a quaternion, one assignment of the four products, all
\* computed before any component is assigned
imul(h, self, x) ==
    IF isQuaternion(At(h, x))
    THEN Ran([h EXCEPT ![self.id] =
                  Quat(HamiltonO(@, At(h, x)), HamiltonI(@, At(h, x)),
                       HamiltonJ(@, At(h, x)), HamiltonK(@, At(h, x)))],
             self, "none")
    ELSE IF isFloat(x)
         THEN Ran([h EXCEPT ![self.id] = Quat(NMul(@.o, x), NMul(@.i, x),
                                              NMul(@.j, x), NMul(@.k, x))],
                  self, "none")
         ELSE Ran(h, None, "QuaternionException")

(***************************************************************************)
(* The object driver: calls of Quaternion methods on the objects of heap,  *)
(* as src/quaternion_test.py makes them.  ret is the last call (method,    *)
(* receiver and argument, value returned, heap before it) and chain the    *)
(* calls made so far.  After a first call the driver goes on with the      *)
(* inverse compound operator, with a call on the copy or its original, or  *)
(* with a setter on the receiver a setter returned.                        *)
(***************************************************************************)
ObjP == {TestP, IQ(-3, 1, 2, -1), IQ(1, 1, 0, 0), BasisI}

ObjQ == {TestQ, BasisJ, IQ(0, -1, 1, 0)}

ObjScalars == {PyInt(2), PyInt(5), Dec(5, -1)}

Operators == {"add", "sub", "mul"}

Compounds == {"iadd", "isub", "imul"}

Setters == {"setScalar", "setI", "setJ", "setK"}

Unaries == {"neg", "conj", "reciprocal", "unit", "norm", "copy"}

InitObj ==
    /\ p = BasisO
    /\ q = BasisO
    /\ res = Result("none", None, None, None)
    /\ rot = NoRot
    /\ exc = "none"
    /\ ret = Result("none", None, None, None)
    /\ chain = << >>
    /\ heap \in {<<a, b>> : a \in ObjP, b \in ObjQ}

Refs == {Ref(n) : n \in 1 .. Len(heap)}

Invoke(m, h, self, x) ==
    CASE m = "add"        -> add(h, self, x)
      [] m = "sub"        -> sub(h, self, x)
      [] m = "mul"        -> mul(h, self, x)
      [] m = "iadd"       -> iadd(h, self, x)
      [] m = "isub"       -> isub(h, self, x)
      [] m = "imul"       -> imul(h, self, x)
      [] m = "setScalar"  -> setScalar(h, self, x)
      [] m = "setI"       -> setI(h, self, x)
      [] m = "setJ"       -> setJ(h, self, x)
      [] m = "setK"       -> setK(h, self, x)
      [] m = "neg"        -> negOf(h, self)
      [] m = "conj"       -> conjOf(h, self)
      [] m = "reciprocal" -> reciprocalOf(h, self)
      [] m = "unit"       -> unitOf(h, self)
      [] m = "norm"       -> normOf(h, self)
      [] m = "copy"       -> copy(h, self)

\* the call self.m(x)
Does(m, self, x) ==
    \E out \in {Invoke(m, heap, self, x)} :
        /\ heap' = out.heap
        /\ exc' = out.exc
        /\ ret' = Result(m, <<self, x>>, out.val, heap)
        /\ chain' = Append(chain, ret')
        /\ UNCHANGED <<p, q, res, rot>>

\* self + x, self - x, self * x
Operator(m, self, x) == m \in Operators /\ Does(m, self, x)

\* self += x, self -= x, self *= x
Compound(m, self, x) == m \in Compounds /\ Does(m, self, x)

\* self.setScalar(v), self.setI(v), self.setJ(v), self.setK(v)
Setter(m, self, v) == m \in Setters /\ Does(m, self, v)

\* -self, self.conj(), self.reciprocal(), self.unit(), self.norm(),
\* Quaternion(self)
Unary(m, self) ==
    /\ m \in Unaries
    /\ m \in {"unit", "norm"} => HasRoot(sqsum(heap[self.id]))
    /\ Does(m, self, None)

\* p += x; p -= x
Inverse ==
    /\ Len(chain) = 1
    /\ ret.op = "iadd"
    /\ exc = "none"
    /\ Compound("isub", ret.x[1], ret.x[2])

\* c = Quaternion(p), then a call that changes p or c
AfterCopy(m, self, x) ==
    /\ Len(chain) = 1
    /\ ret.op = "copy"
    /\ self \in {ret.x[1], ret.val}
    /\ Compound(m, self, x) \/ Setter(m, self, x)

\* p.setScalar(a).setJ(b).setK(c): the next setter is called on the value
\* the setter before it returned
Chained(m, v) ==
    /\ Len(chain) \in {1, 2}
    /\ ret.op \in Setters
    /\ exc = "none"
    /\ Setter(m, ret.val, v)

NextObj ==
    \/ chain = << >> /\ \E m \in Operators, s \in Refs, x \in Refs \cup ObjScalars \cup {NaS} :
           Operator(m, s, x)
    \/ chain = << >> /\ \E m \in Compounds, s \in Refs, x \in Refs \cup ObjScalars \cup {NaS} :
           Compound(m, s, x)
    \/ chain = << >> /\ \E m \in Setters, s \in Refs, v \in Refs \cup ObjScalars \cup {NaS} :
           Setter(m, s, v)
    \/ chain = << >> /\ \E m \in Unaries, s \in Refs : Unary(m, s)
    \/ Inverse
    \/ \E m \in Compounds \cup Setters, s \in Refs, x \in {Ref(1), Ref(2), PyInt(2)} :
           AfterCopy(m, s, x)
    \/ \E m \in Setters, v \in {PyInt(-3), Dec(5, -1)} : Chained(m, v)

SpecObj == InitObj /\ [][NextObj]_vars

(***************************************************************************)
(* Rotation with its members as objects: __r and __q are references into   *)
(* the heap, so that an object a caller holds may or may not be one of     *)
(* them.  A method gives On(h, self, e): the heap and the Rotation after   *)
(* it and the exception raised; a getter gives Ran(h, val, e).             *)
(***************************************************************************)
On(h, self, e) == [heap |-> h, rot |-> self, exc |-> e]

\* the Rotation with the values of its members
Members(h, self) == Rot(h[self.r.id], self.theta, h[self.q.id])

\* Point3D.setX
setX(h, self, v) ==
    IF isFloat(v)
    THEN Ran([h EXCEPT ![self.id].x = v], None, "none")
    ELSE Ran(h, None, "PointException")

\* Rotation.__update, given u, what Quaternion(0.0, r.x, r.y, r.z).unit()
\* gave: unit() returns a new Quaternion, which becomes __q and is then
\* multiplied and added to in place; the components of the object __r are
\* assigned
updateOfBy(h, self, u) ==
    IF IsExc(u)
    THEN On(h, self, "RotationException")
    ELSE On(Append([h EXCEPT ![self.r.id] = Point(u.i, u.j, u.k)],
                   IAdd(IMul(u, sinHalf(self.theta)), cosHalf(self.theta))),
            [self EXCEPT !.q = Ref(Len(h) + 1)],
            "none")

updateOf(h, self) ==
    updateOfBy(h, self,
               unit(Quaternion(F0, h[self.r.id].x, h[self.r.id].y, h[self.r.id].z)))

\* setAxis, given pt = Point3D(rx, ry, rz), a new object, or the
\* PointException it raised
setAxisOfBy(h, self, pt) ==
    IF IsExc(pt)
    THEN On(h, self, "RotationException")
    ELSE updateOf(Append(h, pt), [self EXCEPT !.r = Ref(Len(h) + 1)])

\* Rotation.setAxis
setAxisOf(h, self, rx, ry, rz) == setAxisOfBy(h, self, Point3D(At(h, rx), ry, rz))

\* Rotation.setAngle
setAngleOf(h, self, angle) ==
    IF ~isFloat(angle)
    THEN On(h, self, "RotationException")
    ELSE updateOf(h, [self EXCEPT !.theta = angle])

\* what the constructor leaves, given the outcome of its call of setAxis
ConstructedOf(made) ==
    IF made.exc = "none" THEN made ELSE On(made.heap, NoRot, made.exc)

\* Rotation(rx, ry, rz, angle)
NewRotationOf(h, rx, ry, rz, angle) ==
    IF ~isFloat(angle)
    THEN On(h, NoRot, "RotationException")
    ELSE ConstructedOf(setAxisOf(h, Rot(None, angle, None), rx, ry, rz))

\* Rotation.getAxis: `return Point3D(...)`
getAxisOf(h, self, factor) == Made(h, getAxis(Members(h, self), factor))

\* Rotation.getAngle
getAngleOf(h, self) == Ran(h, self.theta, "none")

\* Rotation.getRotationQuaternion: `return self.__q`
getRotationQuaternionOf(h, self) == Ran(h, self.q, "none")

\* rotate leaving the rotated coordinates in p
rotateOf_IntoP(h, self, pt) ==
    IF ~isRef(pt)
    THEN Made(h, rotate(Members(h, self), pt))
    ELSE Ran([h EXCEPT ![pt.id] = rotate(Members(h, self), h[pt.id])], pt, "none")

\* Rotation.rotate: `return Point3D(...)`
rotateOf(h, self, pt) == Made(h, rotate(Members(h, self), At(h, pt)))

(***************************************************************************)
(* The ownership driver: a caller constructs a Rotation from numbers or    *)
(* from its own Point3D, calls its methods, and changes the objects it     *)
(* holds: its own point and every object a method returned to it.  ret is  *)
(* the last call with, in alt, the heap and the Rotation before it.        *)
(***************************************************************************)
\* the largest number of calls of a run
MaxCalls == 4

Before == [heap |-> heap, rot |-> rot]

InitOwn ==
    /\ p = BasisO
    /\ q = BasisO
    /\ res = Result("none", None, None, None)
    /\ rot = NoRot
    /\ exc = "none"
    /\ ret = Result("none", None, None, None)
    /\ chain = << >>
    /\ heap \in {<<Point(PyInt(3), PyInt(0), PyInt(4))>>, <<Point(PyInt(1), PyInt(1), PyInt(0))>>}

\* the objects the caller holds
Held == {Ref(1)} \cup {chain[n].val : n \in {m \in 1 .. Len(chain) : isRef(chain[m].val)}}

\* a call on the Rotation that may change it
OwnChanged(m, args, out) ==
    /\ heap' = out.heap
    /\ rot' = out.rot
    /\ exc' = out.exc
    /\ ret' = Result(m, args, None, Before)
    /\ chain' = Append(chain, ret')
    /\ UNCHANGED <<p, q, res>>

\* a call that returns a value
OwnReturned(m, args, out) ==
    /\ heap' = out.heap
    /\ exc' = out.exc
    /\ ret' = Result(m, args, out.val, Before)
    /\ chain' = Append(chain, ret')
    /\ UNCHANGED <<p, q, res, rot>>

\* rot = Rotation(rx, ry, rz, angle)
OwnConstruct(rx, ry, rz, angle) ==
    /\ ~rot.live
    /\ chain = << >>
    /\ \E out \in {NewRotationOf(heap, rx, ry, rz, angle)} :
           OwnChanged("Rotation", <<rx, ry, rz, angle>>, out)

\* rot.setAxis(rx, ry, rz)
OwnSetAxis(rx, ry, rz) ==
    /\ rot.live
    /\ Len(chain) < MaxCalls
    /\ \E out \in {setAxisOf(heap, rot, rx, ry, rz)} :
           OwnChanged("setAxis", <<rx, ry, rz>>, out)

\* rot.setAngle(angle)
OwnSetAngle(angle) ==
    /\ rot.live
    /\ Len(chain) < MaxCalls
    /\ \E out \in {setAngleOf(heap, rot, angle)} : OwnChanged("setAngle", <<angle>>, out)

\* a = rot.getAxis(factor)
OwnGetAxis(factor) ==
    /\ rot.live
    /\ Len(chain) < MaxCalls
    /\ \E out \in {getAxisOf(heap, rot, factor)} : OwnReturned("getAxis", <<factor>>, out)

\* rot.getAngle()
OwnGetAngle ==
    /\ rot.live
    /\ Len(chain) < MaxCalls
    /\ \E out \in {getAngleOf(heap, rot)} : OwnReturned("getAngle", << >>, out)

\* rq = rot.getRotationQuaternion()
OwnGetRotationQuaternion ==
    /\ rot.live
    /\ Len(chain) < MaxCalls
    /\ \E out \in {getRotationQuaternionOf(heap, rot)} :
           OwnReturned("getRotationQuaternion", << >>, out)

\* rot.rotate(pt)
OwnRotate(pt) ==
    /\ rot.live
    /\ Len(chain) < MaxCalls
    /\ \E out \in {rotateOf(heap, rot, pt)} : OwnReturned("rotate", <<pt>>, out)

\* the caller changes a quaternion it holds: s *= x, s.setI(x)
CallerQuaternion(m, self, x) ==
    /\ rot.live
    /\ Len(chain) < MaxCalls
    /\ self \in Held
    /\ isQuaternion(heap[self.id])
    /\ m \in {"imul", "setI"}
    /\ \E out \in {Invoke(m, heap, self, x)} : OwnReturned(m, <<self, x>>, out)

\* the caller changes a point it holds: s.setX(x)
CallerPoint(self, x) ==
    /\ rot.live
    /\ Len(chain) < MaxCalls
    /\ self \in Held
    /\ isPoint3D(heap[self.id])
    /\ \E out \in {setX(heap, self, x)} : OwnReturned("setX", <<self, x>>, out)

NextOwn ==
    \/ \E a \in {<<Ref(1), F0, F0>>, <<PyInt(0), PyInt(2), PyInt(0)>>,
                 <<PyInt(0), PyInt(0), PyInt(0)>>},
          t \in {Angle(1), Angle(2)} : OwnConstruct(a[1], a[2], a[3], t)
    \/ \E a \in {<<Ref(1), F0, F0>>, <<PyInt(0), PyInt(0), PyInt(0)>>} :
           OwnSetAxis(a[1], a[2], a[3])
    \/ \E t \in {Angle(-1), NaS} : OwnSetAngle(t)
    \/ OwnGetAxis(Dec(1, 0))
    \/ OwnGetAngle
    \/ OwnGetRotationQuaternion
    \/ OwnRotate(Ref(1))
    \/ \E m \in {"imul", "setI"}, s \in Refs : CallerQuaternion(m, s, PyInt(2))
    \/ \E s \in Refs : CallerPoint(s, PyInt(0))

SpecOwn == InitOwn /\ [][NextOwn]_vars

(***************************************************************************)
(* Properties of the quaternion operations, under SpecQuat                 *)
(***************************************************************************)
\* x is a number whose value is an integer
IsIntValued(x) == isFloat(x) /\ x.b = 0 /\ x.d = 1 /\ x.e >= 0

IntQuat(x) ==
    /\ isQuaternion(x)
    /\ IsIntValued(x.o) /\ IsIntValued(x.i) /\ IsIntValued(x.j) /\ IsIntValued(x.k)

\* x is the quaternion o + i*i + j*j + k*k with these integer values
QIs(x, o, i, j, k) ==
    /\ IntQuat(x)
    /\ IntVal(x.o) = o /\ IntVal(x.i) = i /\ IntVal(x.j) = j /\ IntVal(x.k) = k

\* two quaternions with the same four values
QEq(x, y) ==
    /\ isQuaternion(x) /\ isQuaternion(y)
    /\ NumEq(x.o, y.o) /\ NumEq(x.i, y.i) /\ NumEq(x.j, y.j) /\ NumEq(x.k, y.k)

\* x is the Hamilton product of the integer quaternions a and b
IsHamilton(x, a, b) ==
    LET o1 == IntVal(a.o)
        i1 == IntVal(a.i)
        j1 == IntVal(a.j)
        k1 == IntVal(a.k)
        o2 == IntVal(b.o)
        i2 == IntVal(b.i)
        j2 == IntVal(b.j)
        k2 == IntVal(b.k)
    IN  QIs(x, o1 * o2 - i1 * i2 - j1 * j2 - k1 * k2,
               o1 * i2 + i1 * o2 + j1 * k2 - k1 * j2,
               o1 * j2 - i1 * k2 + j1 * o2 + k1 * i2,
               o1 * k2 + i1 * j2 - j1 * i2 + k1 * o2)

\* C1: for quaternions p and q with integer components, p*q (and q*p) has
\* the components of the Hamilton product; (-3,1,2,-1)*(1,-2,3,-4) is
\* (-11,2,-1,18) and the product in the reverse order is (-11,12,-13,4).
C1_HamiltonProduct ==
    res.op = "mul" /\ IntQuat(p) /\ IntQuat(q) =>
        /\ IsHamilton(res.val, p, q)
        /\ IsHamilton(res.alt, q, p)
        /\ QIs(p, -3, 1, 2, -1) /\ QIs(q, 1, -2, 3, -4) =>
               /\ QIs(res.val, -11, 2, -1, 18)
               /\ QIs(res.alt, -11, 12, -13, 4)

C1_Witness ==
    /\ res.op = "mul"
    /\ p = IQ(-3, 1, 2, -1)
    /\ q = TestQ
    /\ res.val = IQ(-11, 2, -1, 18)
    /\ res.alt = IQ(-11, 12, -13, 4)

\* C2: the basis quaternions o, i, j, k multiply as i*i = j*j = k*k = -1,
\* i*j = k, j*i = -k, j*k = i, k*j = -i, k*i = j, i*k = -j and
\* o*x = x*o = x; i*j differs from j*i.
C2_BasisProducts ==
    res.op = "mul" /\ p \in Basis /\ q \in Basis =>
        /\ p = BasisO => QEq(res.val, q) /\ QEq(res.alt, q)
        /\ q = BasisO => QEq(res.val, p) /\ QEq(res.alt, p)
        /\ p = q /\ p # BasisO => QIs(res.val, -1, 0, 0, 0)
        /\ p = BasisI /\ q = BasisJ =>
               /\ QIs(res.val, 0, 0, 0, 1)
               /\ QIs(res.alt, 0, 0, 0, -1)
               /\ ~QEq(res.val, res.alt)
        /\ p = BasisJ /\ q = BasisK =>
               QIs(res.val, 0, 1, 0, 0) /\ QIs(res.alt, 0, -1, 0, 0)
        /\ p = BasisK /\ q = BasisI =>
               QIs(res.val, 0, 0, 1, 0) /\ QIs(res.alt, 0, 0, -1, 0)
        /\ p = BasisJ /\ q = BasisI => QIs(res.val, 0, 0, 0, -1)
        /\ p = BasisK /\ q = BasisJ => QIs(res.val, 0, -1, 0, 0)
        /\ p = BasisI /\ q = BasisK => QIs(res.val, 0, 0, -1, 0)

C2_Witness ==
    /\ res.op = "mul"
    /\ p = BasisI
    /\ q = BasisJ
    /\ QEq(res.val, BasisK)
    /\ QEq(res.alt, Neg(BasisK))

\* C3: for quaternions p, q, r with integer components, every component of
\* (p*q)*r equals the corresponding component of p*(q*r).
C3_MulAssociative ==
    res.op = "mulmul" /\ IntQuat(p) /\ IntQuat(q) /\ IntQuat(res.x) =>
        QEq(res.val, res.alt)

C3_Witness ==
    /\ res.op = "mulmul"
    /\ p = IQ(-3, 1, 2, -1)
    /\ q = TestQ
    /\ res.x = IQ(0, -1, 1, 0)
    /\ QEq(res.val, res.alt)
    /\ ~QEq(res.val, Mul(Mul(res.x, q), p))

\* C4: p+q and p-q with a quaternion q are the componentwise sum and
\* difference; p+s and p-s with a real scalar s change only the scalar
\* component o, by +s and -s, and leave i, j, k as they are in p.
C4_AddSub ==
    /\ res.op = "add" /\ isQuaternion(res.x) =>
           /\ isQuaternion(res.val)
           /\ Val(res.val.o) = VAdd(Val(p.o), Val(res.x.o))
           /\ Val(res.val.i) = VAdd(Val(p.i), Val(res.x.i))
           /\ Val(res.val.j) = VAdd(Val(p.j), Val(res.x.j))
           /\ Val(res.val.k) = VAdd(Val(p.k), Val(res.x.k))
           /\ IntQuat(p) /\ IntQuat(res.x) =>
                  QIs(res.val, IntVal(p.o) + IntVal(res.x.o), IntVal(p.i) + IntVal(res.x.i),
                               IntVal(p.j) + IntVal(res.x.j), IntVal(p.k) + IntVal(res.x.k))
    /\ res.op = "sub" /\ isQuaternion(res.x) =>
           /\ isQuaternion(res.val)
           /\ Val(res.val.o) = VSub(Val(p.o), Val(res.x.o))
           /\ Val(res.val.i) = VSub(Val(p.i), Val(res.x.i))
           /\ Val(res.val.j) = VSub(Val(p.j), Val(res.x.j))
           /\ Val(res.val.k) = VSub(Val(p.k), Val(res.x.k))
           /\ IntQuat(p) /\ IntQuat(res.x) =>
                  QIs(res.val, IntVal(p.o) - IntVal(res.x.o), IntVal(p.i) - IntVal(res.x.i),
                               IntVal(p.j) - IntVal(res.x.j), IntVal(p.k) - IntVal(res.x.k))
    /\ res.op = "add" /\ isFloat(res.x) =>
           /\ isQuaternion(res.val)
           /\ Val(res.val.o) = VAdd(Val(p.o), Val(res.x))
           /\ res.val.i = p.i /\ res.val.j = p.j /\ res.val.k = p.k
           /\ IsIntValued(p.o) /\ IsIntValued(res.x) =>
                  IntVal(res.val.o) = IntVal(p.o) + IntVal(res.x)
    /\ res.op = "sub" /\ isFloat(res.x) =>
           /\ isQuaternion(res.val)
           /\ Val(res.val.o) = VSub(Val(p.o), Val(res.x))
           /\ res.val.i = p.i /\ res.val.j = p.j /\ res.val.k = p.k
           /\ IsIntValued(p.o) /\ IsIntValued(res.x) =>
                  IntVal(res.val.o) = IntVal(p.o) - IntVal(res.x)

C4_Witness ==
    /\ res.op = "sub"
    /\ p = TestQ
    /\ res.x = PyInt(-7)
    /\ res.val = IQ(8, -2, 3, -4)

\* C5: for every quaternion whose squared norm is not below eps, also one
\* whose four components are ints, reciprocal() returns the conjugate
\* divided by the squared norm, and p*reciprocal(p) and reciprocal(p)*p are
\* the quaternion 1.
C5_ReciprocalIsInverse ==
    res.op = "reciprocal" /\ ~NLess(sqsum(p), eps) =>
        /\ isQuaternion(res.val)
        /\ Val(res.val.o) = VDiv(Val(p.o), Val(sqsum(p)))
        /\ Val(res.val.i) = VDiv(VNeg(Val(p.i)), Val(sqsum(p)))
        /\ Val(res.val.j) = VDiv(VNeg(Val(p.j)), Val(sqsum(p)))
        /\ Val(res.val.k) = VDiv(VNeg(Val(p.k)), Val(sqsum(p)))
        /\ QIs(Mul(p, res.val), 1, 0, 0, 0)
        /\ QIs(Mul(res.val, p), 1, 0, 0, 0)

\* C6: reciprocal() raises QuaternionException exactly when the squared norm
\* is below eps and unit() exactly when the norm is below eps; both raise
\* for the zero quaternion, and a call that raises returns no quaternion.
C6_DegenerateRaises ==
    /\ res.op = "reciprocal" =>
           /\ IsExc(res.val) <=> NLess(sqsum(p), eps)
           /\ IsExc(res.val) => res.val = Raise("QuaternionException")
           /\ ~IsExc(res.val) => isQuaternion(res.val)
           /\ QEq(p, IQ(0, 0, 0, 0)) => IsExc(res.val)
           \* squared norms 1e-12 (not below eps) and 1e-14
           /\ p = Quat(Dec(1, -6), F0, F0, F0) => ~IsExc(res.val)
           /\ p = Quat(F0, Dec(-1, -7), F0, F0) => IsExc(res.val)
    /\ res.op = "unit" =>
           /\ IsExc(res.val) <=> NLess(norm(p), eps)
           /\ IsExc(res.val) => res.val = Raise("QuaternionException")
           /\ ~IsExc(res.val) => isQuaternion(res.val)
           /\ QEq(p, IQ(0, 0, 0, 0)) => IsExc(res.val)
           \* norms 1e-7, 1e-12 (not below eps) and 1e-13
           /\ p = Quat(F0, Dec(-1, -7), F0, F0) => ~IsExc(res.val)
           /\ p = Quat(F0, F0, Dec(1, -12), F0) => ~IsExc(res.val)
           /\ p = Quat(F0, Dec(-1, -13), F0, F0) => IsExc(res.val)

C6_Witness ==
    /\ res.op = "unit"
    /\ p = Quat(Dec(3, -13), F0, F0, Dec(4, -13))
    /\ res.val = Raise("QuaternionException")

(***************************************************************************)
(* Properties of Rotation, under SpecRot and SpecTrip                      *)
(***************************************************************************)
\* a point with these integer coordinates, as ints or as floats
PIs(pt, x, y, z) ==
    /\ isPoint3D(pt)
    /\ NumEq(pt.x, PyInt(x)) /\ NumEq(pt.y, PyInt(y)) /\ NumEq(pt.z, PyInt(z))

\* two points with the same three values
PEq(a, b) ==
    /\ isPoint3D(a) /\ isPoint3D(b)
    /\ NumEq(a.x, b.x) /\ NumEq(a.y, b.y) /\ NumEq(a.z, b.z)

\* cos(theta/2) + sin(theta/2) * (r.x*i + r.y*j + r.z*k)
QuatOf(r, theta) ==
    Quat(cosHalf(theta), NMul(sinHalf(theta), r.x), NMul(sinHalf(theta), r.y),
         NMul(sinHalf(theta), r.z))

\* the stored axis has length one and the stored quaternion is the unit
\* quaternion of the stored axis and angle
Consistent(self) ==
    /\ NumEq(sqSum(self.r), PyInt(1))
    /\ QEq(self.q, QuatOf(self.r, self.theta))
    /\ NumEq(sqsum(self.q), PyInt(1))

\* the axis arguments of a call are the zero vector
IsZeroVector(rx, ry, rz) ==
    IF isPoint3D(rx)
    THEN PIs(rx, 0, 0, 0)
    ELSE /\ isFloat(rx) /\ isFloat(ry) /\ isFloat(rz)
         /\ NumEq(rx, F0) /\ NumEq(ry, F0) /\ NumEq(rz, F0)

\* C7: in every state of a Rotation object reached by setAxis and setAngle
\* calls after construction, the stored axis has unit length and the stored
\* quaternion is cos(angle/2) + sin(angle/2) * axis for the stored angle.
C7_RotationInvariant == rot.live => Consistent(rot)

\* C8: Rotation(...) and setAxis(...) with the zero vector as axis, given as
\* three scalars or as a Point3D, raise RotationException, and no call on a
\* Rotation lets a QuaternionException reach the caller.
C8_ZeroAxisRejected ==
    /\ exc # "QuaternionException"
    /\ (ret.op \in {"Rotation", "setAxis"} /\ IsZeroVector(ret.x[1], ret.x[2], ret.x[3]))
           => exc = "RotationException"

C8_Witness ==
    /\ ret.op = "setAxis"
    /\ ret.alt.live
    /\ ret.x[1] = Point(PyInt(0), PyInt(0), PyInt(0))
    /\ exc = "RotationException"

\* C9: rotate(p) returns a Point3D whose coordinates are the i, j, k of
\* q * (0, p.x, p.y, p.z) * conj(q) for the stored quaternion q, and the
\* rotation is right-handed: a quarter turn about the z, y and x axis maps
\* (x, y, z) to (-y, x, z), (z, y, -x) and (x, -z, y), so (1, 1, 1) to
\* (-1, 1, 1), (1, 1, -1) and (1, -1, 1).
C9_RotateIsConjugation ==
    (ret.op = "rotate" /\ exc = "none") =>
        /\ isPoint3D(ret.val)
        /\ \E w \in {Mul(Mul(ret.alt.q, Quat(PyInt(0), ret.x.x, ret.x.y, ret.x.z)),
                         conj(ret.alt.q))} :
               NumEq(ret.val.x, w.i) /\ NumEq(ret.val.y, w.j) /\ NumEq(ret.val.z, w.k)
        /\ (Consistent(ret.alt) /\ ret.alt.theta = Angle(1)) =>
               /\ PIs(ret.alt.r, 0, 0, 1) =>
                      /\ PEq(ret.val, Point(NNeg(ret.x.y), ret.x.x, ret.x.z))
                      /\ PIs(ret.x, 1, 1, 1) => PIs(ret.val, -1, 1, 1)
               /\ PIs(ret.alt.r, 0, 1, 0) =>
                      /\ PEq(ret.val, Point(ret.x.z, ret.x.y, NNeg(ret.x.x)))
                      /\ PIs(ret.x, 1, 1, 1) => PIs(ret.val, 1, 1, -1)
               /\ PIs(ret.alt.r, 1, 0, 0) =>
                      /\ PEq(ret.val, Point(ret.x.x, NNeg(ret.x.z), ret.x.y))
                      /\ PIs(ret.x, 1, 1, 1) => PIs(ret.val, 1, -1, 1)

C9_Witness ==
    /\ ret.op = "rotate"
    /\ exc = "none"
    /\ Consistent(ret.alt)
    /\ ret.alt.theta = Angle(1)
    /\ PIs(ret.alt.r, 0, 1, 0)
    /\ PIs(ret.x, 1, 1, 1)
    /\ PIs(ret.val, 1, 1, -1)

\* C10: a point rotated about a non-zero axis by an angle and then about the
\* same axis by the opposite angle, set by a new Rotation or by setAngle, is
\* the original point.
C10_RoundTrip ==
    ( /\ Len(chain) = 2
      /\ NumEq(sqSum(chain[1].axis), PyInt(1))
      /\ PEq(chain[1].axis, chain[2].axis)
      /\ chain[2].theta = Angle(-chain[1].theta.h) )
        => PEq(chain[2].val, chain[1].arg)

C10_Witness ==
    /\ Len(chain) = 2
    /\ PEq(chain[1].axis, chain[2].axis)
    /\ chain[1].theta = Angle(1)
    /\ chain[2].theta = Angle(-1)
    /\ ~PEq(chain[1].val, chain[1].arg)
    /\ PEq(chain[2].val, chain[1].arg)
    /\ chain[2].q # chain[1].q

(***************************************************************************)
(* Properties of the Quaternion objects, under SpecObj                     *)
(***************************************************************************)
\* the receiver and the argument of the call in ret
Receiver == ret.x[1]

Argument == ret.x[2]

\* the objects of the heap before the call other than n are as they were
OthersKept(n) ==
    /\ Len(heap) >= Len(ret.alt)
    /\ \A m \in 1 .. Len(ret.alt) : m # n => heap[m] = ret.alt[m]

\* C11: +, -, *, +=, -=, *= with an operand that is neither a Quaternion nor
\* an int or float, and setScalar, setI, setJ, setK with an argument that is
\* not an int or float, raise QuaternionException and leave every component
\* of the receiver (and everything else) as it was.
C11_BadOperandRaises ==
    /\ (ret.op \in Operators \cup Compounds /\ Argument = NaS) =>
           exc = "QuaternionException" /\ heap = ret.alt /\ ret.val = None
    /\ (ret.op \in Setters /\ ~isFloat(Argument)) =>
           exc = "QuaternionException" /\ heap = ret.alt /\ ret.val = None

C11_Witness ==
    /\ ret.op = "setScalar"
    /\ Argument = NaS
    /\ exc = "QuaternionException"
    /\ heap[Receiver.id] = TestP

\* C12: p += x, p -= x, p *= x with a quaternion or a number x leave in p
\* the components of p + x, p - x, p * x computed from p and x as they were
\* before the call, also when x is p itself, and return p itself; += and -=
\* with a number change the component o only.
C12_CompoundAsOperator ==
    (ret.op \in Compounds /\ Argument # NaS) =>
        /\ exc = "none"
        /\ ret.val = Receiver
        /\ Len(heap) = Len(ret.alt)
        /\ ret.op = "iadd" => heap[Receiver.id] = Add(ret.alt[Receiver.id], At(ret.alt, Argument))
        /\ ret.op = "isub" => heap[Receiver.id] = Sub(ret.alt[Receiver.id], At(ret.alt, Argument))
        /\ ret.op = "imul" => heap[Receiver.id] = Mul(ret.alt[Receiver.id], At(ret.alt, Argument))
        /\ (ret.op \in {"iadd", "isub"} /\ isFloat(Argument)) =>
               /\ heap[Receiver.id].i = ret.alt[Receiver.id].i
               /\ heap[Receiver.id].j = ret.alt[Receiver.id].j
               /\ heap[Receiver.id].k = ret.alt[Receiver.id].k

C12_Witness ==
    /\ ret.op = "imul"
    /\ Argument = Receiver
    /\ ret.alt[Receiver.id] = IQ(-3, 1, 2, -1)
    /\ QIs(heap[Receiver.id], 3, -6, -12, 6)

\* C13: +, -, *, unary -, conj(), reciprocal(), unit() and Quaternion(q)
\* return a new object and change no object, norm() changes no object,
\* +=, -=, *= and the setters change no object but their receiver, and so
\* a change of a copy or of its original leaves the other as it was.
C13_OnlyReceiverChanges ==
    /\ (ret.op \in Operators \cup (Unaries \ {"norm"}) /\ exc = "none") =>
           /\ ret.val = Ref(Len(ret.alt) + 1)
           /\ Len(heap) = Len(ret.alt) + 1
           /\ OthersKept(0)
    /\ (ret.op = "norm" \/ exc # "none") => heap = ret.alt
    /\ ret.op \in Compounds \cup Setters => OthersKept(Receiver.id)
    /\ (Len(chain) = 2 /\ chain[1].op = "copy") =>
           /\ chain[1].val # chain[1].x[1]
           /\ chain[2].alt[chain[1].val.id] = chain[2].alt[chain[1].x[1].id]
           /\ Receiver = chain[1].val => heap[chain[1].x[1].id] = chain[1].alt[chain[1].x[1].id]
           /\ Receiver = chain[1].x[1] => heap[chain[1].val.id] = chain[1].alt[chain[1].x[1].id]

C13_Witness ==
    /\ Len(chain) = 2
    /\ chain[1].op = "copy"
    /\ chain[1].x[1] = Ref(1)
    /\ ret.op = "imul"
    /\ Receiver = Ref(1)
    /\ Argument = Ref(2)
    /\ heap[1] # heap[3]
    /\ heap[3] = chain[1].alt[1]

\* C15: setScalar, setI, setJ, setK with an int or float set the component
\* they name to it, leave the other three as they were and return the
\* receiver itself, so that p.setScalar(a).setJ(b).setK(c) leaves p with
\* o = a, j = b, k = c and the i it had.
C15_SetterSetsOne ==
    /\ (ret.op \in Setters /\ isFloat(Argument)) =>
           /\ exc = "none"
           /\ ret.val = Receiver
           /\ Len(heap) = Len(ret.alt)
           /\ heap[Receiver.id].o = IF ret.op = "setScalar" THEN Argument ELSE ret.alt[Receiver.id].o
           /\ heap[Receiver.id].i = IF ret.op = "setI" THEN Argument ELSE ret.alt[Receiver.id].i
           /\ heap[Receiver.id].j = IF ret.op = "setJ" THEN Argument ELSE ret.alt[Receiver.id].j
           /\ heap[Receiver.id].k = IF ret.op = "setK" THEN Argument ELSE ret.alt[Receiver.id].k
    /\ ( /\ Len(chain) = 3
         /\ chain[1].op = "setScalar" /\ chain[2].op = "setJ" /\ chain[3].op = "setK" ) =>
           /\ chain[2].x[1] = chain[1].x[1] /\ chain[3].x[1] = chain[1].x[1]
           /\ heap[chain[1].x[1].id] =
                  Quat(chain[1].x[2], chain[1].alt[chain[1].x[1].id].i,
                       chain[2].x[2], chain[3].x[2])

C15_Witness ==
    /\ Len(chain) = 3
    /\ chain[1].op = "setScalar" /\ chain[2].op = "setJ" /\ chain[3].op = "setK"
    /\ chain[1].alt[1] = BasisI
    /\ heap[1] = Quat(PyInt(2), Dec(1, 0), PyInt(-3), Dec(5, -1))

\* p += x followed by p -= x
AddThenSub ==
    /\ Len(chain) = 2
    /\ chain[1].op = "iadd" /\ chain[2].op = "isub"
    /\ chain[2].x = chain[1].x

\* a quaternion whose four components are ints
AllInts(x) == x.o.t = "int" /\ x.i.t = "int" /\ x.j.t = "int" /\ x.k.t = "int"

\* p has the components it had before the pair: the same values, and the
\* same ints when p and x have integer components
Restored ==
    /\ QEq(heap[Receiver.id], chain[1].alt[Receiver.id])
    /\ (AllInts(chain[1].alt[Receiver.id]) /\
        (IF isRef(Argument) THEN AllInts(chain[1].alt[Argument.id]) ELSE Argument.t = "int"))
           => heap[Receiver.id] = chain[1].alt[Receiver.id]

\* C18 as stated: for all quaternions p and q and every number s, p += q
\* followed by p -= q, and p += s followed by p -= s, restore the four
\* components of p.
C18_AddThenSubRestores == AddThenSub => Restored

\* C18: for all quaternions p and q, q not the object p itself, and every
\* number s, p += q followed by p -= q, and p += s followed by p -= s,
\* restore the four components of p (exactly, over integer components).
C18_AddThenSubRestoresOther == (AddThenSub /\ Argument # Receiver) => Restored

C18_Witness ==
    /\ AddThenSub
    /\ Receiver = Ref(1)
    /\ Argument = Ref(2)
    /\ chain[1].alt[1] = IQ(-3, 1, 2, -1)
    /\ chain[1].alt[2] = TestQ
    /\ chain[2].alt[1] = IQ(-2, -1, 5, -5)
    /\ heap[1] = IQ(-3, 1, 2, -1)

(***************************************************************************)
(* Properties of the Rotation and the objects around it, under SpecOwn and *)
(* SpecRot                                                                 *)
(***************************************************************************)
\* what getAxis(), getRotationQuaternion() and rotate(Point3D(1, 1, 1)) of
\* the Rotation self give in the heap h
Observed(h, self) ==
    [axis |-> getAxis(Members(h, self), Dec(1, 0)),
     q    |-> h[self.q.id],
     img  |-> rotate(Members(h, self), Point(PyInt(1), PyInt(1), PyInt(1)))]

\* C14: no operation of a caller on an object it passed to the constructor
\* or to setAxis, or on an object getAxis(), getRotationQuaternion() or
\* rotate() returned to it, changes what getAxis(), getRotationQuaternion()
\* and rotate() of the Rotation give.
C14_MembersNotShared ==
    ret.op \in {"imul", "setI", "setX"} =>
        Observed(heap, rot) = Observed(ret.alt.heap, ret.alt.rot)

C17_FailedCallKeepsState ==
    /\ (ret.op \in {"setAxis", "setAngle"} /\ exc = "RotationException") =>
           /\ getAxis(rot, Dec(1, 0)) = getAxis(ret.alt, Dec(1, 0))
           /\ getAngle(rot) = getAngle(ret.alt)
           /\ getRotationQuaternion(rot) = getRotationQuaternion(ret.alt)
    /\ (ret.op = "setAngle" /\ isFloat(ret.x)) => exc = "none"

====
